---- MODULE Spec2Model ----
(***************************************************************************)
(* Placeholder image generator (gopkg-dev/Placeholder): request           *)
(* validation, cache-key fingerprinting, the one-time font parse, the     *)
(* font-face pool, and the generate-or-fetch path through the LRU cache.  *)
(*                                                                         *)
(* Go strings are modelled as sequences of byte values (0..255).          *)
(***************************************************************************)
EXTENDS Integers, Sequences, FiniteSets, TLC

\* ------------------------------------------------------------------------
\* Strings as byte sequences
\* ------------------------------------------------------------------------

\* The printable ASCII characters, in code order starting at 32 (the quote,
\* the backslash and the grave accent are written by name).
Ascii ==
    << " ", "!", "QUOTE", "#", "$", "%", "&", "'", "(", ")", "*", "+", ",", "-", ".", "/",
       "0", "1", "2", "3", "4", "5", "6", "7", "8", "9", ":", ";", "<", "=", ">", "?",
       "@", "A", "B", "C", "D", "E", "F", "G", "H", "I", "J", "K", "L", "M", "N", "O",
       "P", "Q", "R", "S", "T", "U", "V", "W", "X", "Y", "Z", "[", "BACKSLASH", "]", "^", "_",
       "GRAVE", "a", "b", "c", "d", "e", "f", "g", "h", "i", "j", "k", "l", "m", "n", "o",
       "p", "q", "r", "s", "t", "u", "v", "w", "x", "y", "z", "{", "|", "}", "~" >>

\* The byte value of a printable ASCII character.
Ord(c) == 31 + (CHOOSE i \in 1..Len(Ascii) : Ascii[i] = c)

\* The byte string of a tuple of characters: S(<<"3","x","2">>) is "3x2".
S(cs) == [i \in 1..Len(cs) |-> Ord(cs[i])]

\* The byte values the code below names.
Ch0 == Ord("0")
Ch9 == Ord("9")
ChLowerA == Ord("a")
ChLowerF == Ord("f")
ChUpperA == Ord("A")
ChUpperF == Ord("F")
ChUpperZ == Ord("Z")
ChX == Ord("x")
ChUnderscore == Ord("_")
ChPercent == Ord("%")
ChPlus == Ord("+")
ChSpace == Ord(" ")
ChDot == Ord(".")

IsDigit(b) == b >= Ch0 /\ b <= Ch9

IsHexDigit(b) ==
    \/ IsDigit(b)
    \/ (b >= ChLowerA /\ b <= ChLowerF)
    \/ (b >= ChUpperA /\ b <= ChUpperF)

\* The numeric value of a hexadecimal digit byte.
HexVal(b) ==
    IF IsDigit(b) THEN b - Ch0
    ELSE IF b >= ChLowerA /\ b <= ChLowerF THEN b - ChLowerA + 10
    ELSE b - ChUpperA + 10

\* strings.ToLower on the ASCII range.
ToLower(s) ==
    [i \in 1..Len(s) |-> IF s[i] >= ChUpperA /\ s[i] <= ChUpperZ THEN s[i] + 32 ELSE s[i]]

\* fmt's %d of a non-negative integer: its decimal digits.
RECURSIVE Itoa(_)
Itoa(n) ==
    IF n < 10 THEN << Ch0 + n >>
    ELSE Append(Itoa(n \div 10), Ch0 + (n % 10))

\* strings.Split(s, sep) for a one-byte separator.
RECURSIVE Split(_, _)
Split(s, sep) ==
    IF \A i \in 1..Len(s) : s[i] # sep THEN << s >>
    ELSE LET k == CHOOSE i \in 1..Len(s) : s[i] = sep /\ \A j \in 1..(i - 1) : s[j] # sep
         IN  << SubSeq(s, 1, k - 1) >> \o Split(SubSeq(s, k + 1, Len(s)), sep)

\* ------------------------------------------------------------------------
\* types.go: validation
\* ------------------------------------------------------------------------

MaxImageSize == 3000
DefaultBg == S(<<"c","c","c","c","c","c">>)
DefaultFg == S(<<"6","6","6","6","6","6">>)
TypePNG == S(<<"p","n","g">>)
TypeGIF == S(<<"g","i","f">>)
TypeJPG == S(<<"j","p","g">>)
TypeJPEG == S(<<"j","p","e","g">>)
TypeWEBP == S(<<"w","e","b","p">>)

DefaultType == TypePNG

validTypes ==
    { TypePNG, TypeGIF, TypeJPG, TypeJPEG, TypeWEBP }

\* sizeRegex, ^(\d+)x(\d+)$: the submatches <<whole, w, h>>, or <<>> on no match.
\* 'x' is no digit, so the split point is the only 'x' of the token.
sizeRegexFind(s) ==
    LET xs == { i \in 1..Len(s) : s[i] = ChX }
        ok(i) == /\ i > 1 /\ i < Len(s)
                 /\ \A j \in 1..Len(s) : j # i => IsDigit(s[j])
    IN  IF \E i \in xs : ok(i)
        THEN LET i == CHOOSE i \in xs : ok(i)
             IN  << s, SubSeq(s, 1, i - 1), SubSeq(s, i + 1, Len(s)) >>
        ELSE << >>

\* colorRegex, ^[a-fA-F0-9]{6}$.
colorRegexMatch(s) == Len(s) = 6 /\ \A i \in 1..6 : IsHexDigit(s[i])

\* The decimal digits of math.MaxInt64.
MaxInt64Digits == S(<<"9","2","2","3","3","7","2","0","3","6","8","5","4","7","7","5","8","0","7">>)

RECURSIVE StripZeros(_)
StripZeros(ds) ==
    IF Len(ds) > 1 /\ ds[1] = Ch0 THEN StripZeros(Tail(ds)) ELSE ds

\* Lexicographic ds > es for digit strings of the same length.
DigitsGreater(ds, es) ==
    \E i \in 1..Len(ds) : ds[i] > es[i] /\ \A j \in 1..(i - 1) : ds[j] = es[j]

\* Values are kept exactly up to AtoiSaturation; a larger in-range value is held as
\* AtoiSaturation, which the only later use (the comparison with MaxImageSize)
\* cannot tell from the value itself.
AtoiSaturation == 1000000

RECURSIVE DigitsValue(_)
DigitsValue(ds) ==
    IF Len(ds) = 0 THEN 0
    ELSE LET hi == DigitsValue(SubSeq(ds, 1, Len(ds) - 1))
             v  == 10 * hi + (ds[Len(ds)] - Ch0)
         IN  IF hi >= AtoiSaturation \/ v >= AtoiSaturation THEN AtoiSaturation ELSE v

\* strconv.Atoi on a string of digits (64-bit int): a value out of the int64 range
\* is an error.
Atoi(ds) ==
    LET z == StripZeros(ds)
    IN  IF Len(z) > Len(MaxInt64Digits)
           \/ (Len(z) = Len(MaxInt64Digits) /\ DigitsGreater(z, MaxInt64Digits))
        THEN [err |-> "out of range", val |-> 0]
        ELSE [err |-> "", val |-> DigitsValue(z)]

NoSize == [Width |-> 0, Height |-> 0]

ParseSizeOffByOne(sizeStr) ==
    LET matches == sizeRegexFind(sizeStr)
    IN  IF Len(matches) # 3
        THEN [err |-> "invalid size format, expected WIDTHxHEIGHT", size |-> NoSize]
        ELSE LET w == Atoi(matches[2])
                 h == Atoi(matches[3])
             IN  IF w.err # "" THEN [err |-> "invalid width", size |-> NoSize]
                 ELSE IF h.err # "" THEN [err |-> "invalid height", size |-> NoSize]
                 ELSE IF w.val <= 0 \/ h.val <= 0
                         \/ w.val >= MaxImageSize \/ h.val >= MaxImageSize
                 THEN [err |-> "size must be between 1x1 and 3000x3000", size |-> NoSize]
                 ELSE [err |-> "", size |-> [Width |-> w.val, Height |-> h.val]]

ParseSize(sizeStr) ==
    LET matches == sizeRegexFind(sizeStr)
    IN  IF Len(matches) # 3
        THEN [err |-> "invalid size format, expected WIDTHxHEIGHT", size |-> NoSize]
        ELSE LET w == Atoi(matches[2])
                 h == Atoi(matches[3])
             IN  IF w.err # "" THEN [err |-> "invalid width", size |-> NoSize]
                 ELSE IF h.err # "" THEN [err |-> "invalid height", size |-> NoSize]
                 ELSE IF w.val <= 0 \/ h.val <= 0
                         \/ w.val > MaxImageSize \/ h.val > MaxImageSize
                 THEN [err |-> "size must be between 1x1 and 3000x3000", size |-> NoSize]
                 ELSE [err |-> "", size |-> [Width |-> w.val, Height |-> h.val]]

ValidateType(imageType) == ToLower(imageType) \in validTypes

ValidateColor(color) == IF color = << >> THEN TRUE ELSE colorRegexMatch(color)

applyDefault(value, defaultValue) == IF value = << >> THEN defaultValue ELSE value

\* The nil *ImageRequest returned beside an error.
NilRequest ==
    [Width |-> 0, Height |-> 0, Type |-> << >>, BgColor |-> << >>,
     FgColor |-> << >>, Text |-> << >>]

\* NewImageRequest(sizeStr, imageType, p): [err, req]; err = "" is a nil error.
NewImageRequest(sizeStr, imageType, p) ==
    LET parsed == ParseSize(sizeStr)
        size   == parsed.size
        ty     == IF imageType = << >> THEN DefaultType ELSE imageType
        bg     == applyDefault(p.Bg, DefaultBg)
        fg     == applyDefault(p.Fg, DefaultFg)
        text   == applyDefault(p.Text,
                      Itoa(size.Width) \o << ChX >> \o Itoa(size.Height))
    IN  IF parsed.err # "" THEN [err |-> parsed.err, req |-> NilRequest]
        ELSE IF ~ValidateType(ty)
        THEN [err |-> "unsupported image type", req |-> NilRequest]
        ELSE IF ~ValidateColor(bg)
        THEN [err |-> "invalid background color", req |-> NilRequest]
        ELSE IF ~ValidateColor(fg)
        THEN [err |-> "invalid foreground color", req |-> NilRequest]
        ELSE [err |-> "",
              req |-> [Width |-> size.Width, Height |-> size.Height,
                       Type |-> ToLower(ty), BgColor |-> bg, FgColor |-> fg,
                       Text |-> text]]

\* ------------------------------------------------------------------------
\* Cache key
\* ------------------------------------------------------------------------

\* The string getCacheKey hashes: "%dx%d_%s_%s_%s_%s".
cacheKeyStringNoFg(req) ==
    Itoa(req.Width) \o << ChX >> \o Itoa(req.Height) \o << ChUnderscore >>
        \o req.Type \o << ChUnderscore >> \o req.BgColor \o << ChUnderscore >>
        \o req.Text
cacheKeyString(req) ==
    Itoa(req.Width) \o << ChX >> \o Itoa(req.Height) \o << ChUnderscore >>
        \o req.Type \o << ChUnderscore >> \o req.BgColor \o << ChUnderscore >>
        \o req.FgColor \o << ChUnderscore >> \o req.Text

\* md5.Sum and its %x rendering: a digest is written as the tagged preimage, so
\* two digests are equal exactly when the hashed strings are (no MD5 collision).
md5Hex(bytes) == << "md5", bytes >>

getCacheKey(req) == md5Hex(cacheKeyString(req))

\* ------------------------------------------------------------------------
\* Rendering: colours, text, font size, encoding
\* ------------------------------------------------------------------------

\* strconv.ParseUint(s, 16, 8) on a two-byte string.
ParseUint16x8(s) ==
    IF \A i \in 1..Len(s) : IsHexDigit(s[i])
    THEN [err |-> "", val |-> 16 * HexVal(s[1]) + HexVal(s[2])]
    ELSE [err |-> "invalid syntax", val |-> 0]

NoColor == [R |-> 0, G |-> 0, B |-> 0, A |-> 0]

parseHexColor(hexColor) ==
    IF Len(hexColor) # 6 THEN [err |-> "invalid hex color length", color |-> NoColor]
    ELSE LET r == ParseUint16x8(SubSeq(hexColor, 1, 2))
             g == ParseUint16x8(SubSeq(hexColor, 3, 4))
             b == ParseUint16x8(SubSeq(hexColor, 5, 6))
         IN  IF r.err # "" THEN [err |-> r.err, color |-> NoColor]
             ELSE IF g.err # "" THEN [err |-> g.err, color |-> NoColor]
             ELSE IF b.err # "" THEN [err |-> b.err, color |-> NoColor]
             ELSE [err |-> "", color |-> [R |-> r.val, G |-> g.val, B |-> b.val, A |-> 255]]

IsCont(s, i, lo, hi) == i <= Len(s) /\ s[i] >= lo /\ s[i] <= hi

\* The byte length of the well-formed UTF-8 sequence starting at s[i], or 0 when
\* there is none (unicode/utf8's first-byte and accept-range tables).
RuneLen(s, i) ==
    LET b == s[i]
    IN  IF b < 128 THEN 1
        ELSE IF b >= 194 /\ b <= 223
        THEN (IF IsCont(s, i + 1, 128, 191) THEN 2 ELSE 0)
        ELSE IF b >= 224 /\ b <= 239
        THEN (IF /\ IsCont(s, i + 1, IF b = 224 THEN 160 ELSE 128,
                                     IF b = 237 THEN 159 ELSE 191)
                 /\ IsCont(s, i + 2, 128, 191)
              THEN 3 ELSE 0)
        ELSE IF b >= 240 /\ b <= 244
        THEN (IF /\ IsCont(s, i + 1, IF b = 240 THEN 144 ELSE 128,
                                     IF b = 244 THEN 143 ELSE 191)
                 /\ IsCont(s, i + 2, 128, 191)
                 /\ IsCont(s, i + 3, 128, 191)
              THEN 4 ELSE 0)
        ELSE 0

RECURSIVE ValidFrom(_, _)
ValidFrom(s, i) ==
    IF i > Len(s) THEN TRUE
    ELSE LET n == RuneLen(s, i) IN IF n = 0 THEN FALSE ELSE ValidFrom(s, i + n)

\* utf8.ValidString
ValidString(s) == ValidFrom(s, 1)

\* The end of the run of ASCII bytes that starts at s[i]: each is one rune.
AsciiRunEnd(s, i) ==
    IF \A k \in i..Len(s) : s[k] < 128 THEN Len(s) + 1
    ELSE CHOOSE k \in i..Len(s) : s[k] >= 128 /\ \A m \in i..(k - 1) : s[m] < 128

RECURSIVE RuneCountFrom(_, _)
RuneCountFrom(s, i) ==
    IF i > Len(s) THEN 0
    ELSE IF s[i] < 128
    THEN (AsciiRunEnd(s, i) - i) + RuneCountFrom(s, AsciiRunEnd(s, i))
    ELSE LET n == RuneLen(s, i) IN 1 + RuneCountFrom(s, i + (IF n = 0 THEN 1 ELSE n))

\* utf8.RuneCountInString: an ill-formed byte counts as one rune.
RuneCountInString(s) == RuneCountFrom(s, 1)

InvalidUTF8Text == S(<<"I","n","v","a","l","i","d"," ","U","T","F","-","8">>)

\* calculateOptimalFontSize, in exact rational arithmetic: the result is the
\* fraction num/den with den = 5000 * runeCount, since
\*   baseFontSize = (width*0.85/runeCount) * 0.8 * (minDim/200)
\*                = 17*width*minDim / (5000*runeCount).
calculateOptimalFontSizeMaxLast(width, height, text) ==
    LET minDim == IF height < width THEN height ELSE width
        rc == RuneCountInString(text)
        runeCount == IF rc = 0 THEN 1 ELSE rc
        den == 5000 * runeCount
        base == 17 * width * minDim
        maxDyn == 2000 * runeCount * minDim
        minDyn == 100 * runeCount * minDim
        minFontSize == IF minDyn < 12 * den THEN 12 * den ELSE minDyn
        maxFontSize == IF maxDyn > 150 * den THEN 150 * den ELSE maxDyn
        raised == IF base < minFontSize THEN minFontSize ELSE base
        fontSize == IF raised > maxFontSize THEN maxFontSize ELSE raised
    IN  [num |-> fontSize, den |-> den]
calculateOptimalFontSize(width, height, text) ==
    LET minDim    == IF height < width THEN height ELSE width
        rc        == RuneCountInString(text)
        runeCount == IF rc = 0 THEN 1 ELSE rc
        den       == 5000 * runeCount
        base      == 17 * width * minDim
        maxDyn    == 2000 * runeCount * minDim      \* minDim * 0.4
        minDyn    == 100 * runeCount * minDim       \* minDim * 0.02
        minFontSize == IF minDyn < 12 * den THEN 12 * den ELSE minDyn
        maxFontSize == IF maxDyn > 150 * den THEN 150 * den ELSE maxDyn
        capped    == IF base > maxFontSize THEN maxFontSize ELSE base
        fontSize  == IF capped < minFontSize THEN minFontSize ELSE capped
    IN  [num |-> fontSize, den |-> den]

\* The image format an encoder writes for a type, "" for an unsupported type.
EncoderOf(imageType) ==
    IF imageType = TypePNG THEN "png"
    ELSE IF imageType \in { TypeJPG, TypeJPEG } THEN "jpeg"
    ELSE IF imageType = TypeGIF THEN "gif"
    ELSE IF imageType = TypeWEBP THEN "webp"
    ELSE ""

NoImage ==
    [Width |-> 0, Height |-> 0, bg |-> NoColor, fg |-> NoColor, text |-> << >>,
     face |-> "", fontSize |-> [num |-> 0, den |-> 1]]

NoBytes == [format |-> "", complete |-> FALSE, img |-> NoImage]

\* encodeImage(img, imageType): [err, bytes]. encoderOk is the encoder library's
\* outcome; on its failure the buffer written so far comes back beside the error.
encodeImage(img, imageType, encoderOk) ==
    LET fmt == EncoderOf(imageType)
    IN  IF fmt = "" THEN [err |-> "unsupported image type", bytes |-> NoBytes]
        ELSE IF encoderOk
        THEN [err |-> "", bytes |-> [format |-> fmt, complete |-> TRUE, img |-> img]]
        ELSE [err |-> "encode failed",
              bytes |-> [format |-> fmt, complete |-> FALSE, img |-> img]]

getContentType(imageType) ==
    LET fmt == EncoderOf(imageType) IN IF fmt = "" THEN "image/png" ELSE "image/" \o fmt

\* url.QueryUnescape: every '%' must start a %XX escape, else the error leaves the
\* caller's text as it was; '+' decodes to a space.
QueryUnescapeOk(s) ==
    \A i \in 1..Len(s) :
        s[i] = ChPercent =>
            i + 2 <= Len(s) /\ IsHexDigit(s[i + 1]) /\ IsHexDigit(s[i + 2])

RECURSIVE QueryUnescapeFrom(_, _)
QueryUnescapeFrom(s, i) ==
    IF i > Len(s) THEN << >>
    ELSE IF s[i] = ChPercent
    THEN << 16 * HexVal(s[i + 1]) + HexVal(s[i + 2]) >> \o QueryUnescapeFrom(s, i + 3)
    ELSE IF s[i] = ChPlus THEN << ChSpace >> \o QueryUnescapeFrom(s, i + 1)
    ELSE << s[i] >> \o QueryUnescapeFrom(s, i + 1)

QueryUnescape(s) ==
    IF QueryUnescapeOk(s) THEN [err |-> "", val |-> QueryUnescapeFrom(s, 1)]
    ELSE [err |-> "invalid URL escape", val |-> << >>]

\* ------------------------------------------------------------------------
\* Font program and face pool
\* ------------------------------------------------------------------------

FONT_POOL_SIZE == 32

NilFace == [nil |-> TRUE, size |-> [num |-> 0, den |-> 1], dpi |-> 0]

\* The 24pt, 72 DPI face NewFontPool asks for.
PoolFaceSize == [num |-> 24, den |-> 1]

\* opentype.Parse(embeddedFont): the font program, or an error for bytes that
\* are no font.
opentypeParse(fontBytes) ==
    IF fontBytes = "font bytes" THEN [font |-> "font", err |-> ""]
    ELSE [font |-> "nil", err |-> "font parse error"]

\* sync.Once.doSlow, under the mutex: f runs only if done is still unset.
onceShouldRunAlways(done) == TRUE
onceShouldRun(done) == ~done

\* parseEmbeddedFont after fontOnce.Do has returned. newFaceOk is the outcome of
\* opentype.NewFace.
parseEmbeddedFontFaceNoErrCheck(font, parseErr, fontSize, dpi, newFaceOk) ==
    IF ~newFaceOk THEN [face |-> NilFace, err |-> "new face error"]
    ELSE [face |-> [nil |-> FALSE, size |-> fontSize, dpi |-> dpi], err |-> ""]
parseEmbeddedFontFace(font, parseErr, fontSize, dpi, newFaceOk) ==
    IF parseErr # "" THEN [face |-> NilFace, err |-> parseErr]
    ELSE IF ~newFaceOk THEN [face |-> NilFace, err |-> "new face error"]
    ELSE [face |-> [nil |-> FALSE, size |-> fontSize, dpi |-> dpi], err |-> ""]

\* GetFont(fontSize): a face from parseEmbeddedFont, never one from the pool.
GetFontFromPool(fonts, font, parseErr, fontSize, newFaceOk) ==
    IF Len(fonts) > 0 THEN Head(fonts)
    ELSE parseEmbeddedFontFace(font, parseErr, fontSize, 72, newFaceOk).face
GetFont(fonts, font, parseErr, fontSize, newFaceOk) ==
    LET r == parseEmbeddedFontFace(font, parseErr, fontSize, 72, newFaceOk)
    IN  IF r.err = "" THEN r.face ELSE NilFace

\* PutFont(face): the channel after the non-blocking send.
PutFontAlways(fonts, capacity, face) == Append(fonts, face)
PutFont(fonts, capacity, face) ==
    IF face.nil THEN fonts
    ELSE IF Len(fonts) < capacity THEN Append(fonts, face)
    ELSE fonts

\* NewFontPool(size): the channel after the pre-population loop, in which
\* newFaceOk[i] is the outcome of opentype.NewFace in iteration i.
RECURSIVE NewFontPoolLoop(_, _, _, _, _)
NewFontPoolLoop(fonts, i, size, parsed, newFaceOk) ==
    IF i > size THEN fonts
    ELSE LET r == parseEmbeddedFontFace(parsed.font, parsed.err, PoolFaceSize, 72,
                                        newFaceOk[i])
         IN  NewFontPoolLoop(IF r.err = "" THEN Append(fonts, r.face) ELSE fonts,
                             i + 1, size, parsed, newFaceOk)

NewFontPool(size, parsed, newFaceOk) == NewFontPoolLoop(<< >>, 1, size, parsed, newFaceOk)

\* ------------------------------------------------------------------------
\* The LRU cache (package cache): entries most recently used first
\* ------------------------------------------------------------------------

MAX_CACHE_ITEMS == 10000
CACHE_MAX_AGE == 3600

\* The options NewImageGenerator passes to cache.New.
cacheOptionsNoUpdate ==
    [size |-> MAX_CACHE_ITEMS, age |-> CACHE_MAX_AGE, updateAgeOnGet |-> FALSE]
cacheOptions ==
    [size |-> MAX_CACHE_ITEMS, age |-> CACHE_MAX_AGE, updateAgeOnGet |-> TRUE]

cacheIndex(entries, k) ==
    IF \E i \in 1..Len(entries) : entries[i].key = k
    THEN CHOOSE i \in 1..Len(entries) : entries[i].key = k
    ELSE 0

RemoveAt(seq, i) == SubSeq(seq, 1, i - 1) \o SubSeq(seq, i + 1, Len(seq))

\* The time an entry's age is measured from.
cacheAgeBase(e, opts) == IF opts.updateAgeOnGet THEN e.lastAccessedAt ELSE e.insertedAt

cacheExpired(e, opts, t) == opts.age > 0 /\ t - cacheAgeBase(e, opts) > opts.age

\* Get(key) at time t: [found, value, entries]. An expired entry is a miss and
\* stays resident; a hit makes the entry the most recently used one.
cacheGet(entries, opts, k, t) ==
    LET i == cacheIndex(entries, k)
    IN  IF i = 0 THEN [found |-> FALSE, value |-> NoBytes, entries |-> entries]
        ELSE IF cacheExpired(entries[i], opts, t)
        THEN [found |-> FALSE, value |-> NoBytes, entries |-> entries]
        ELSE [found |-> TRUE, value |-> entries[i].value,
              entries |-> << [entries[i] EXCEPT !.lastAccessedAt = t] >>
                              \o RemoveAt(entries, i)]

\* Set(key, value) at time t: the entry becomes the most recently used one; over
\* capacity, the least recently used entry is evicted.
cacheSet(entries, opts, k, v, t) ==
    LET i    == cacheIndex(entries, k)
        rest == IF i = 0 THEN entries ELSE RemoveAt(entries, i)
        all  == << [key |-> k, value |-> v, insertedAt |-> t, lastAccessedAt |-> t] >>
                    \o rest
    IN  IF Len(all) > opts.size THEN SubSeq(all, 1, opts.size) ELSE all

\* ------------------------------------------------------------------------
\* State
\* ------------------------------------------------------------------------

VARIABLES
    pc,            \* where each request handler (or parseEmbeddedFont caller) stands
    args,          \* the arguments the handler passed to NewImageRequest
    req,           \* the *ImageRequest the handler holds
    req0,          \* the request as NewImageRequest returned it
    key,           \* GenerateImage's cacheKey
    face,          \* createImage's fontFace
    img,           \* the image createImage returned
    resp,          \* the handler's response
    served,        \* requests accepted so far
    cache,         \* generator.memoryCache: entries, most recently used first
    pool,          \* generator.fontPool.fonts: the buffered channel's content
    now,           \* the clock, in seconds
    embeddedFont,  \* the embedded font file
    fontOnce,      \* sync.Once: its done flag and who holds its mutex
    parsedFont,
    fontParseErr,
    parseCount,    \* how many times opentype.Parse(embeddedFont) has run
    fres           \* what a parseEmbeddedFont caller read and returned

vars ==
    << pc, args, req, req0, key, face, img, resp, served, cache, pool, now,
       embeddedFont, fontOnce, parsedFont, fontParseErr, parseCount, fres >>

handlerVars == << args, req, req0, key, face, img, resp, served >>
fontVars == << embeddedFont, fontOnce, parsedFont, fontParseErr, parseCount >>

Procs == { "h1", "h2" }

\* Bounds of the exploration.
MaxRequests == 3
MaxNewFaceFailures == 1
MaxTicks == 3
TickSeconds == 1800
MaxCalls == 3

NoArgs == [Size |-> << >>, Type |-> << >>, Bg |-> << >>, Fg |-> << >>, Text |-> << >>]
NoKey == md5Hex(<< >>)
NoResp == [status |-> 0, err |-> "", contentType |-> "", body |-> NoBytes, hit |-> FALSE]
NoFres == [face |-> NilFace, err |-> "", sawFont |-> "nil", sawErr |-> ""]

EmbeddedFonts == { "font bytes", "not a font" }

\* The HTTP requests explored: path parameter and query values as fiber hands
\* them to HandlerImage.
HandlerInputs ==
    { [Size |-> S(<<"3","0","0","x","2","0","0">>), Bg |-> << >>, Fg |-> << >>,
       Text |-> << >>],
      [Size |-> S(<<"3","0","0","x","2","0","0",".","j","p","g">>),
       Bg |-> S(<<"f","f","0","0","0","0">>), Fg |-> << >>,
       Text |-> S(<<"%","F","F">>)],
      [Size |-> S(<<"2","0","x","2","0",".","P","N","G">>), Bg |-> << >>, Fg |-> << >>,
       Text |-> S(<<"H","i","+","%","C","3","%","A","9">>)],
      [Size |-> S(<<"0","x","5">>), Bg |-> << >>, Fg |-> << >>, Text |-> << >>],
      [Size |-> S(<<"2","0","x","2","0",".","b","m","p">>), Bg |-> << >>, Fg |-> << >>,
       Text |-> << >>],
      [Size |-> S(<<"3","0","0","x","2","0","0">>), Bg |-> S(<<"z","z","0","0","0","0">>),
       Fg |-> << >>, Text |-> << >>] }

\* The handlers' locals before a request.
IdleHandlers ==
    /\ pc = [p \in Procs |-> "idle"]
    /\ args = [p \in Procs |-> NoArgs]
    /\ req = [p \in Procs |-> NilRequest]
    /\ req0 = [p \in Procs |-> NilRequest]
    /\ key = [p \in Procs |-> NoKey]
    /\ face = [p \in Procs |-> NilFace]
    /\ img = [p \in Procs |-> NoImage]
    /\ resp = [p \in Procs |-> NoResp]
    /\ fres = [p \in Procs |-> NoFres]
    /\ served = 0
    /\ now = 0

\* init(): NewImageGenerator has built the cache and pre-populated the pool; the
\* first parseEmbeddedFont call has run fontOnce.
Init ==
    /\ IdleHandlers
    /\ embeddedFont \in EmbeddedFonts
    /\ fontOnce = [done |-> TRUE, m |-> ""]
    /\ parsedFont = opentypeParse(embeddedFont).font
    /\ fontParseErr = opentypeParse(embeddedFont).err
    /\ parseCount = 1
    /\ cache = << >>
    /\ \E nFail \in 0..MaxNewFaceFailures :
          pool = NewFontPool(FONT_POOL_SIZE, opentypeParse(embeddedFont),
                             [i \in 1..FONT_POOL_SIZE |-> i > nFail])

\* ------------------------------------------------------------------------
\* HandlerImage and GenerateImage
\* ------------------------------------------------------------------------

Finish(p, r) ==
    /\ pc' = [pc EXCEPT ![p] = "done"]
    /\ resp' = [resp EXCEPT ![p] = r]

ErrorResponse(status, e) == [NoResp EXCEPT !.status = status, !.err = e]

ImageResponse(r, data, wasHit) ==
    [status |-> 200, err |-> "", contentType |-> getContentType(r.Type),
     body |-> data, hit |-> wasHit]

\* HandlerImage's test of NewImageRequest's error.
HandlerRejectsNever(v) == FALSE
HandlerRejects(v) == v.err # ""

\* HandlerImage up to the call of GenerateImage. The request's parameters are
\* taken as fiber's ParamsParser and QueryParser filled them in.
HandlerImage(p) ==
    /\ pc[p] = "idle"
    /\ served < MaxRequests
    /\ \E in \in HandlerInputs :
          LET parts     == Split(in.Size, ChDot)
              size      == parts[1]
              imageType == IF Len(parts) = 2 THEN parts[2] ELSE << >>
              decoded   == QueryUnescape(in.Text)
              text      == IF in.Text # << >> /\ decoded.err = ""
                           THEN decoded.val ELSE in.Text
              a         == [Size |-> size, Type |-> imageType, Bg |-> in.Bg,
                            Fg |-> in.Fg, Text |-> text]
              v         == NewImageRequest(size, imageType, a)
          IN  /\ args' = [args EXCEPT ![p] = a]
              /\ served' = served + 1
              /\ IF HandlerRejects(v)
                 THEN /\ Finish(p, ErrorResponse(400, v.err))
                      /\ UNCHANGED << req, req0 >>
                 ELSE /\ pc' = [pc EXCEPT ![p] = "generate"]
                      /\ req' = [req EXCEPT ![p] = v.req]
                      /\ req0' = [req0 EXCEPT ![p] = v.req]
                      /\ UNCHANGED resp
    /\ UNCHANGED << key, face, img, cache, pool, now, fontVars, fres >>

\* GenerateImage: the key and the cache lookup.
GenerateImageLookup(p) ==
    /\ pc[p] = "generate"
    /\ LET cacheKey == getCacheKey(req[p])
           got      == cacheGet(cache, cacheOptions, cacheKey, now)
       IN  /\ key' = [key EXCEPT ![p] = cacheKey]
           /\ cache' = got.entries
           /\ IF got.found
              THEN Finish(p, ImageResponse(req[p], got.value, TRUE))
              ELSE /\ pc' = [pc EXCEPT ![p] = "create"]
                   /\ UNCHANGED resp
    /\ UNCHANGED << args, req, req0, face, img, served, pool, now, fontVars, fres >>

\* createImage up to the font face: colours, font size, GetFont.
createImageFont(p) ==
    /\ pc[p] = "create"
    /\ fontOnce.done
    /\ LET bgColor  == parseHexColor(req[p].BgColor)
           fgColor  == parseHexColor(req[p].FgColor)
           fontSize == calculateOptimalFontSize(req[p].Width, req[p].Height, req[p].Text)
       IN  IF bgColor.err # "" \/ fgColor.err # ""
           THEN /\ Finish(p, ErrorResponse(500,
                       IF bgColor.err # "" THEN bgColor.err ELSE fgColor.err))
                /\ UNCHANGED face
           ELSE /\ \E newFaceOk \in BOOLEAN :
                      face' = [face EXCEPT ![p] =
                          GetFont(pool, parsedFont, fontParseErr, fontSize, newFaceOk)]
                /\ pc' = [pc EXCEPT ![p] = "draw"]
                /\ UNCHANGED resp
    /\ UNCHANGED << args, req, req0, key, img, served, cache, pool, now, fontVars, fres >>

\* createImage's text check: what req.Text holds when the text is measured.
createImageTextKept(r) == r.Text
createImageText(r) == IF ~ValidString(r.Text) THEN InvalidUTF8Text ELSE r.Text

\* createImage from the text check to its return, the deferred PutFont included
\* (deferred only for a face that is not nil, which PutFont tests again).
\* Without a face, LoadFontFace("", fontSize) fails and the context keeps its
\* built-in face.
createImageDraw(p) ==
    /\ pc[p] = "draw"
    /\ LET text == createImageText(req[p])
       IN  /\ req' = [req EXCEPT ![p].Text = text]
           /\ img' = [img EXCEPT ![p] =
                  [Width |-> req[p].Width, Height |-> req[p].Height,
                   bg |-> parseHexColor(req[p].BgColor).color,
                   fg |-> parseHexColor(req[p].FgColor).color,
                   text |-> text,
                   face |-> IF face[p].nil THEN "basicfont" ELSE "embedded",
                   fontSize |-> IF face[p].nil THEN NoImage.fontSize ELSE face[p].size]]
    /\ pool' = PutFont(pool, FONT_POOL_SIZE, face[p])
    /\ pc' = [pc EXCEPT ![p] = "encode"]
    /\ UNCHANGED << args, req0, key, face, resp, served, cache, now, fontVars, fres >>

\* GenerateImage's test of encodeImage's error before the cache is written.
GenerateImageStoresAlways(err) == TRUE
GenerateImageStores(err) == err = ""

\* GenerateImage from encodeImage to its return, and HandlerImage's response.
GenerateImageEncode(p) ==
    /\ pc[p] = "encode"
    /\ \E encoderOk \in BOOLEAN :
          LET enc == encodeImage(img[p], req[p].Type, encoderOk)
          IN  /\ cache' = IF GenerateImageStores(enc.err)
                          THEN cacheSet(cache, cacheOptions, key[p], enc.bytes, now)
                          ELSE cache
              /\ IF enc.err # ""
                 THEN Finish(p, ErrorResponse(500, enc.err))
                 ELSE Finish(p, ImageResponse(req[p], enc.bytes, FALSE))
    /\ UNCHANGED << args, req, req0, key, face, img, served, pool, now, fontVars, fres >>

\* The handler returns; its goroutine is free for the next request.
HandlerReturn(p) ==
    /\ pc[p] = "done"
    /\ pc' = [pc EXCEPT ![p] = "idle"]
    /\ args' = [args EXCEPT ![p] = NoArgs]
    /\ req' = [req EXCEPT ![p] = NilRequest]
    /\ req0' = [req0 EXCEPT ![p] = NilRequest]
    /\ key' = [key EXCEPT ![p] = NoKey]
    /\ face' = [face EXCEPT ![p] = NilFace]
    /\ img' = [img EXCEPT ![p] = NoImage]
    /\ resp' = [resp EXCEPT ![p] = NoResp]
    /\ UNCHANGED << served, cache, pool, now, fontVars, fres >>

HandlerStep(p) ==
    \/ HandlerImage(p)
    \/ GenerateImageLookup(p)
    \/ createImageFont(p)
    \/ createImageDraw(p)
    \/ GenerateImageEncode(p)
    \/ HandlerReturn(p)

\* Concurrent request handlers, at one instant of the clock.
Next == \E p \in Procs : HandlerStep(p)

Spec == Init /\ [][Next]_vars

\* ------------------------------------------------------------------------
\* One handler at a time, with the clock advancing (cache expiry)
\* ------------------------------------------------------------------------

Tick ==
    /\ now < MaxTicks * TickSeconds
    /\ now' = now + TickSeconds
    /\ UNCHANGED << pc, handlerVars, cache, pool, fontVars, fres >>

NextTTL == Tick \/ HandlerStep("h1")

SpecTTL == Init /\ [][NextTTL]_vars

\* ------------------------------------------------------------------------
\* GenerateImage called again with the request object of a successful call
\* ------------------------------------------------------------------------

\* The caller of a successful GenerateImage(req) passes the same *ImageRequest to
\* GenerateImage once more. Until the lookup of the new call, key and resp still
\* hold the first call's cache key and bytes.
GenerateImageAgain(p) ==
    /\ pc[p] = "done"
    /\ resp[p].status = 200
    /\ pc' = [pc EXCEPT ![p] = "generate"]
    /\ UNCHANGED << handlerVars, cache, pool, now, fontVars, fres >>

NextAgain == \E p \in Procs : HandlerStep(p) \/ GenerateImageAgain(p)

SpecAgain == Init /\ [][NextAgain]_vars

\* ------------------------------------------------------------------------
\* parseEmbeddedFont called concurrently on a fresh process state
\* ------------------------------------------------------------------------

FaceSizes == { PoolFaceSize, [num |-> 12, den |-> 1] }

InitFont ==
    /\ IdleHandlers
    /\ embeddedFont \in EmbeddedFonts
    /\ fontOnce = [done |-> FALSE, m |-> ""]
    /\ parsedFont = "nil"
    /\ fontParseErr = ""
    /\ parseCount = 0
    /\ cache = << >>
    /\ pool = << >>

FontFrame == UNCHANGED << handlerVars, cache, pool, now, embeddedFont >>

\* A caller enters parseEmbeddedFont(fontSize, 72).
parseEmbeddedFontCall(c) ==
    /\ pc[c] = "idle"
    /\ served < MaxCalls
    /\ \E fontSize \in FaceSizes :
          fres' = [fres EXCEPT ![c] = [NoFres EXCEPT !.face.size = fontSize]]
    /\ pc' = [pc EXCEPT ![c] = "once"]
    /\ UNCHANGED << args, req, req0, key, face, img, resp, cache, pool, now, fontVars >>
    /\ served' = served + 1

\* Once.Do: the load of done; set, Do returns at once.
OnceDo(c) ==
    /\ pc[c] = "once"
    /\ pc' = [pc EXCEPT ![c] = IF fontOnce.done THEN "after" ELSE "lock"]
    /\ UNCHANGED << fontOnce, parsedFont, fontParseErr, parseCount, fres >>
    /\ FontFrame

\* doSlow: m.Lock(), which blocks while another caller holds the mutex.
OnceLock(c) ==
    /\ pc[c] = "lock"
    /\ fontOnce.m = ""
    /\ fontOnce' = [fontOnce EXCEPT !.m = c]
    /\ pc' = [pc EXCEPT ![c] = IF onceShouldRun(fontOnce.done) THEN "parse" ELSE "unlock"]
    /\ UNCHANGED << parsedFont, fontParseErr, parseCount, fres >>
    /\ FontFrame

\* f: opentype.Parse runs and parsedFont is assigned ...
OnceParseFont(c) ==
    /\ pc[c] = "parse"
    /\ parsedFont' = opentypeParse(embeddedFont).font
    /\ parseCount' = parseCount + 1
    /\ pc' = [pc EXCEPT ![c] = "parseErr"]
    /\ UNCHANGED << fontOnce, fontParseErr, fres >>
    /\ FontFrame

\* ... then fontParseErr, and the deferred done.Store(1).
OnceParseErr(c) ==
    /\ pc[c] = "parseErr"
    /\ fontParseErr' = opentypeParse(embeddedFont).err
    /\ fontOnce' = [fontOnce EXCEPT !.done = TRUE]
    /\ pc' = [pc EXCEPT ![c] = "unlock"]
    /\ UNCHANGED << parsedFont, parseCount, fres >>
    /\ FontFrame

\* The deferred m.Unlock(); Do returns.
OnceUnlock(c) ==
    /\ pc[c] = "unlock"
    /\ fontOnce' = [fontOnce EXCEPT !.m = ""]
    /\ pc' = [pc EXCEPT ![c] = "after"]
    /\ UNCHANGED << parsedFont, fontParseErr, parseCount, fres >>
    /\ FontFrame

\* After Do: fontParseErr and parsedFont are read and the face is built.
parseEmbeddedFontAfter(c) ==
    /\ pc[c] = "after"
    /\ \E newFaceOk \in BOOLEAN :
          LET r == parseEmbeddedFontFace(parsedFont, fontParseErr, fres[c].face.size,
                                         72, newFaceOk)
          IN  fres' = [fres EXCEPT ![c] =
                  [face |-> IF r.err = "" THEN r.face ELSE fres[c].face,
                   err |-> r.err, sawFont |-> parsedFont, sawErr |-> fontParseErr]]
    /\ pc' = [pc EXCEPT ![c] = "returned"]
    /\ UNCHANGED << fontOnce, parsedFont, fontParseErr, parseCount >>
    /\ FontFrame

parseEmbeddedFontReturn(c) ==
    /\ pc[c] = "returned"
    /\ pc' = [pc EXCEPT ![c] = "idle"]
    /\ fres' = [fres EXCEPT ![c] = NoFres]
    /\ UNCHANGED << fontOnce, parsedFont, fontParseErr, parseCount >>
    /\ FontFrame

NextFont ==
    \E c \in Procs :
        \/ parseEmbeddedFontCall(c)
        \/ OnceDo(c)
        \/ OnceLock(c)
        \/ OnceParseFont(c)
        \/ OnceParseErr(c)
        \/ OnceUnlock(c)
        \/ parseEmbeddedFontAfter(c)
        \/ parseEmbeddedFontReturn(c)

SpecFont == InitFont /\ [][NextFont]_vars

\* ------------------------------------------------------------------------
\* NewImageRequest and getCacheKey applied to a range of tokens
\* ------------------------------------------------------------------------

\* Strings of digits with the numbers they denote; a number above the int64
\* range is written as BeyondInt64.
BeyondInt64 == 0 - 1
DigitStrings ==
    { [str |-> S(<<"0">>), val |-> 0],
      [str |-> S(<<"1">>), val |-> 1],
      [str |-> S(<<"0","0","7">>), val |-> 7],
      [str |-> S(<<"1","1">>), val |-> 11],
      [str |-> S(<<"2","9","9","9">>), val |-> 2999],
      [str |-> S(<<"3","0","0","0">>), val |-> 3000],
      [str |-> S(<<"0","3","0","0","0">>), val |-> 3000],
      [str |-> S(<<"3","0","0","1">>), val |-> 3001],
      [str |-> MaxInt64Digits, val |-> AtoiSaturation],
      [str |-> S(<<"9","2","2","3","3","7","2","0","3","6","8","5","4","7","7","5","8","0","8">>),
       val |-> BeyondInt64],
      [str |-> S(<<"1","0","0","0","0","0","0","0","0","0","0","0","0","0","0","0","0","0","0","0">>),
       val |-> BeyondInt64] }

\* Size tokens that are not digits 'x' digits.
MalformedSizes ==
    { << >>, S(<<"x">>), S(<<"3","0","0">>), S(<<"3","0","0","x">>), S(<<"x","2","0","0">>),
      S(<<"3","0","0","X","2","0","0">>), S(<<"3","0","0","x","2","0","0","x","1">>),
      S(<<"a","b","c","x","2","0","0">>), S(<<"-","1","x","5">>), S(<<"+","1","x","5">>),
      S(<<"3","0","0","x","2","0","0"," ">>), S(<<" ","3","0","0","x","2","0","0">>),
      S(<<"3",".","5","x","2">>), S(<<"3","0","0","x","2","0","0",".","p","n","g">>),
      << 51, 120, 217, 161 >> }

SizeInputs ==
    { [NoArgs EXCEPT !.Size = a.str \o << ChX >> \o b.str] : a \in DigitStrings, b \in DigitStrings }
        \cup { [NoArgs EXCEPT !.Size = s] : s \in MalformedSizes }

KeyInputs ==
    [ Size : { S(<<"1","x","1">>), S(<<"1","x","1","1">>), S(<<"1","1","x","1">>) },
      Type : { << >>, S(<<"J","P","G">>), S(<<"j","p","e","g">>) },
      Bg   : { << >>, S(<<"C","C","C","C","C","C">>) },
      Fg   : { << >>, S(<<"c","c","c","c","c","c">>) },
      Text : { << >>, S(<<"1","_","p","n","g">>), << 255 >> } ]

ValidationInputs == SizeInputs \cup KeyInputs

\* NewImageRequest is applied to the tokens and getCacheKey to its request.
Validate(p) ==
    /\ pc[p] = "idle"
    /\ \E a \in ValidationInputs :
          LET v == NewImageRequest(a.Size, a.Type, a)
          IN  /\ args' = [args EXCEPT ![p] = a]
              /\ req' = [req EXCEPT ![p] = v.req]
              /\ req0' = [req0 EXCEPT ![p] = v.req]
              /\ key' = [key EXCEPT ![p] = IF v.err = "" THEN getCacheKey(v.req) ELSE NoKey]
              /\ resp' = [resp EXCEPT ![p] =
                     IF v.err = "" THEN NoResp ELSE ErrorResponse(400, v.err)]
    /\ pc' = [pc EXCEPT ![p] = "validated"]
    /\ UNCHANGED << face, img, served, cache, pool, now, fontVars, fres >>

Forget(p) ==
    /\ pc[p] = "validated"
    /\ pc' = [pc EXCEPT ![p] = "idle"]
    /\ args' = [args EXCEPT ![p] = NoArgs]
    /\ req' = [req EXCEPT ![p] = NilRequest]
    /\ req0' = [req0 EXCEPT ![p] = NilRequest]
    /\ key' = [key EXCEPT ![p] = NoKey]
    /\ resp' = [resp EXCEPT ![p] = NoResp]
    /\ UNCHANGED << face, img, served, cache, pool, now, fontVars, fres >>

NextValidate == \E p \in Procs : Validate(p) \/ Forget(p)

InitValidate ==
    /\ Init
    /\ embeddedFont = "font bytes"
    /\ Len(pool) = FONT_POOL_SIZE

SpecValidate == InitValidate /\ [][NextValidate]_vars

\* ------------------------------------------------------------------------
\* createImage's font size over a range of dimensions and texts
\* ------------------------------------------------------------------------

\* Dimensions on both sides of the points where the limits change: 0.4 * minDim
\* meets 12 at 30 and 150 at 375; 0.02 * minDim meets 12 at 600.
FontDims == { 1, 29, 30, 31, 375, 376, 600, 601, 3000 }

\* The longest text explored, in runes.
MaxRunes == 110

FontTexts ==
    { << >>, S(<<"A">>), << 255 >>, << 195, 169 >>, InvalidUTF8Text,
      [i \in 1..MaxRunes |-> ChX] }

\* GenerateImage has missed the cache for a request of these dimensions and
\* this text and calls createImage.
FontSizeRequest(p) ==
    /\ pc[p] = "idle"
    /\ \E w \in FontDims, h \in FontDims, t \in FontTexts :
          LET r == [Width |-> w, Height |-> h, Type |-> DefaultType,
                    BgColor |-> DefaultBg, FgColor |-> DefaultFg, Text |-> t]
          IN  /\ req' = [req EXCEPT ![p] = r]
              /\ req0' = [req0 EXCEPT ![p] = r]
    /\ pc' = [pc EXCEPT ![p] = "create"]
    /\ UNCHANGED << args, key, face, img, resp, served, cache, pool, now, fontVars, fres >>

FontSizeDiscard(p) ==
    /\ pc[p] = "draw"
    /\ pc' = [pc EXCEPT ![p] = "idle"]
    /\ req' = [req EXCEPT ![p] = NilRequest]
    /\ req0' = [req0 EXCEPT ![p] = NilRequest]
    /\ face' = [face EXCEPT ![p] = NilFace]
    /\ UNCHANGED << args, key, img, resp, served, cache, pool, now, fontVars, fres >>

NextFontSize ==
    \/ FontSizeRequest("h1")
    \/ createImageFont("h1")
    \/ FontSizeDiscard("h1")

SpecFontSize == InitValidate /\ [][NextFontSize]_vars

\* ------------------------------------------------------------------------
\* Properties
\* ------------------------------------------------------------------------

\* p's call of GenerateImage ran past the cache lookup (a cache miss).
Generated(p) == pc[p] = "done" /\ key[p] # NoKey /\ ~resp[p].hit

\* C1: a failed generation is never written to the cache. Every cache entry holds
\* the complete bytes of a successful encode; the step in which a call returns
\* an error leaves the cache as it was; and the cache changes only in a lookup
\* that hits or in the step of a call that returns image bytes.
C1_FailedGenerationNotCached ==
    /\ [](\A i \in 1..Len(cache) :
            cache[i].value.complete /\ cache[i].value.format # "")
    /\ [][\A p \in Procs :
            (pc[p] # "done" /\ pc'[p] = "done" /\ resp'[p].status = 500)
                => cache' = cache]_vars
    /\ [][cache' # cache =>
            \E p \in Procs :
                /\ pc'[p] = "done"
                /\ resp'[p].status = 200
                /\ pc[p] = "generate" \/ (pc[p] = "encode" /\ resp'[p].body.complete)]_vars

\* C1 witness: a generation has failed in the encoder, its key is not in the
\* cache, and the cache holds another call's entry.
C1_Witness ==
    \E p \in Procs :
        /\ pc[p] = "done"
        /\ resp[p].status = 500
        /\ resp[p].err = "encode failed"
        /\ cacheIndex(cache, key[p]) = 0
        /\ Len(cache) > 0

Rejected(a) == NewImageRequest(a.Size, a.Type, a).err # ""

\* C2: validation precedes every resource access. A handler whose tokens
\* NewImageRequest rejects is never anywhere but at its 400 response, with no
\* cache key and no font face, and the step that handles such a request changes
\* neither the cache nor the pool nor the font state.
C2_ValidationBeforeResources ==
    /\ [](\A p \in Procs :
            (pc[p] # "idle" /\ Rejected(args[p])) =>
                /\ pc[p] = "done"
                /\ resp[p].status = 400
                /\ key[p] = NoKey
                /\ face[p] = NilFace
                /\ req[p] = NilRequest)
    /\ [][\A p \in Procs :
            (pc[p] = "idle" /\ pc'[p] # "idle" /\ Rejected(args'[p])) =>
                /\ cache' = cache
                /\ pool' = pool
                /\ UNCHANGED fontVars]_vars

\* C2 witness: a rejected request has been answered with 400 while the cache and
\* the pool hold entries.
C2_Witness ==
    \E p \in Procs :
        /\ pc[p] = "done"
        /\ Rejected(args[p])
        /\ resp[p].status = 400
        /\ Len(cache) > 0
        /\ Len(pool) > 0

C5_FaceHasRequestedSize ==
    \A p \in Procs :
        (pc[p] = "draw" /\ ~face[p].nil) =>
            /\ face[p].size =
                   calculateOptimalFontSize(req0[p].Width, req0[p].Height, req0[p].Text)
            /\ face[p].dpi = 72

\* C5 witness: a face of a size other than the pooled 24pt is held while the pool
\* holds faces, one of them released by an earlier request.
C5_Witness ==
    \E p \in Procs :
        /\ pc[p] = "draw"
        /\ ~face[p].nil
        /\ face[p].size # PoolFaceSize
        /\ \E i \in 1..Len(pool) : pool[i].size = PoolFaceSize
        /\ \E i \in 1..Len(pool) : pool[i].size # PoolFaceSize

\* C6: the pool is bounded and release never blocks. The pool never holds more
\* than FONT_POOL_SIZE faces; a handler about to return from createImage can
\* always take that step; and on a full pool (or with a nil face) the step
\* leaves the pool as it was.
C6_PoolBoundedNonBlocking ==
    /\ [](Len(pool) <= 32)
    /\ [](\A p \in Procs : pc[p] = "draw" => ENABLED createImageDraw(p))
    /\ [][\A p \in Procs :
            (pc[p] = "draw" /\ pc'[p] = "encode" /\ (Len(pool) = 32 \/ face[p].nil))
                => pool' = pool]_vars

\* C6 witness: a face that is not in the pool has been released to a full pool.
C6_Witness ==
    \E p \in Procs :
        /\ pc[p] = "encode"
        /\ ~face[p].nil
        /\ Len(pool) = FONT_POOL_SIZE
        /\ \A i \in 1..Len(pool) : pool[i] # face[p]

\* C7: an ImageRequest is immutable once constructed: after createImage, and
\* until the handler returns, the request equals what NewImageRequest built.
C7_RequestImmutable ==
    \A p \in Procs : pc[p] \in { "encode", "done" } => req[p] = req0[p]

\* The parse result every caller must see.
ParseResult == opentypeParse(embeddedFont)

\* C3: the embedded font is parsed at most once under any interleaving. No
\* caller is past fontOnce.Do before the parse has finished, with both
\* parsedFont and fontParseErr written; every caller reads the one parse result;
\* after a failed parse every caller returns that error and no face; and once
\* the parse has run its result never changes.
C3_FontParsedOnce ==
    /\ [](parseCount <= 1)
    /\ [](\A c \in Procs :
            pc[c] \in { "after", "returned" } =>
                /\ fontOnce.done
                /\ parseCount = 1
                /\ parsedFont = ParseResult.font
                /\ fontParseErr = ParseResult.err)
    /\ [](\A c \in Procs :
            pc[c] = "returned" =>
                /\ fres[c].sawFont = ParseResult.font
                /\ fres[c].sawErr = ParseResult.err
                /\ ParseResult.err # "" =>
                       (fres[c].err = ParseResult.err /\ fres[c].face.nil))
    /\ [][fontOnce.done =>
            /\ fontOnce'.done
            /\ parseCount' = parseCount
            /\ parsedFont' = parsedFont
            /\ fontParseErr' = fontParseErr]_vars

\* C3 witness: two first callers of a font that fails to parse: one is inside
\* the single parse, holding the mutex with done not yet set, and the other,
\* having seen done unset, is blocked at the mutex.
C3_Witness ==
    \E c, d \in Procs :
        /\ c # d
        /\ pc[c] = "parseErr"
        /\ pc[d] = "lock"
        /\ fontOnce.m = c
        /\ ~fontOnce.done
        /\ parseCount = 1
        /\ embeddedFont = "not a font"

\* The cache lookup of p's call, as a step: its key, the entry found resident
\* before the step (0 for none), and whether the step was a hit.
LookupStep(p) == pc[p] = "generate" /\ pc'[p] # "generate"
LookupEntry(p) == cacheIndex(cache, key'[p])
LookupHit(p) == pc'[p] = "done" /\ resp'[p].hit

\* C8 as claimed: a lookup later than one hour after the entry's insertion is a
\* miss, whatever hits the entry had in between.
C8_ExpiresByInsertionAge ==
    [][\A p \in Procs :
        (LookupStep(p) /\ LookupEntry(p) # 0
            /\ now > cache[LookupEntry(p)].insertedAt + 3600)
                => ~LookupHit(p)]_vars

\* C8 as amended: a lookup later than one hour after the entry's insertion or
\* last hit, whichever is later, is a miss although the entry is resident; a
\* lookup within that hour is a hit, returns the stored bytes and restarts the
\* entry's age.
C8_ExpiresByAgeSinceLastHit ==
    [][\A p \in Procs :
        (LookupStep(p) /\ LookupEntry(p) # 0) =>
            LET e == cache[LookupEntry(p)]
            IN  IF now > e.lastAccessedAt + 3600
                THEN ~LookupHit(p) /\ pc'[p] = "create" /\ cache' = cache
                ELSE /\ LookupHit(p)
                     /\ resp'[p].body = e.value
                     /\ cache'[1].key = e.key
                     /\ cache'[1].lastAccessedAt = now
                     /\ cache'[1].insertedAt = e.insertedAt]_vars

\* C8 witness: a lookup has hit an entry inserted more than an hour before.
C8_Witness ==
    \E p \in Procs :
        /\ pc[p] = "done"
        /\ resp[p].hit
        /\ cache[1].key = key[p]
        /\ now > cache[1].insertedAt + 3600
        /\ cache[1].lastAccessedAt = now

Validated(p) == pc[p] = "validated" /\ resp[p].status # 400

\* C9: the cache key is deterministic and injective on validated requests: two
\* requests built by NewImageRequest have the same key exactly when they agree
\* in all six fields.
C9_KeyInjective ==
    \A p, q \in Procs :
        (Validated(p) /\ Validated(q)) =>
            (key[p] = key[q] <=> req0[p] = req0[q])

\* C9 witness: two validated requests that differ in the text alone have
\* different keys.
C9_Witness ==
    \E p, q \in Procs :
        /\ Validated(p) /\ Validated(q)
        /\ req0[p].Text # req0[q].Text
        /\ [req0[p] EXCEPT !.Text = << >>] = [req0[q] EXCEPT !.Text = << >>]
        /\ key[p] # key[q]

SizeErrors ==
    { "invalid size format, expected WIDTHxHEIGHT", "invalid width", "invalid height",
      "size must be between 1x1 and 3000x3000" }

SizeRejected(p) ==
    /\ resp[p].status = 400
    /\ resp[p].err \in SizeErrors
    /\ req[p] = NilRequest

\* C10: size validation accepts exactly the range [1,3000]. A token WxH with
\* both numbers in 1..3000 gives a request with Width = W and Height = H; a
\* token with a number outside the range (0, above 3000, beyond int64) or not of
\* the form digits 'x' digits gives an invalid-size error and no request.
C10_SizeRange ==
    \A p \in Procs :
        pc[p] = "validated" =>
            /\ \A a, b \in DigitStrings :
                  args[p].Size = a.str \o << ChX >> \o b.str =>
                      IF a.val >= 1 /\ a.val <= 3000 /\ b.val >= 1 /\ b.val <= 3000
                      THEN /\ resp[p].status = 0
                           /\ req[p].Width = a.val
                           /\ req[p].Height = b.val
                      ELSE SizeRejected(p)
            /\ args[p].Size \in MalformedSizes => SizeRejected(p)

\* C10 witness: the largest size, written with a leading zero, has been accepted
\* beside a rejected 3001.
C10_Witness ==
    \E p, q \in Procs :
        /\ pc[p] = "validated" /\ pc[q] = "validated"
        /\ req[p].Width = 3000 /\ req[p].Height = 1
        /\ Len(args[p].Size) = 7
        /\ args[q].Size = S(<<"3","0","0","1","x","1">>)
        /\ SizeRejected(q)

\* The face createImage holds for p's request was made at the font size computed
\* for it.
Sized(p) == pc[p] = "draw" /\ ~face[p].nil

MinDim(p) == IF req[p].Height < req[p].Width THEN req[p].Height ELSE req[p].Width

\* The limits of the font size, as multiples of 1/den (den a multiple of 50):
\* min(150, 0.4 * minDim) and max(12, 0.02 * minDim).
MaxFontSizeAt(minDim, den) ==
    IF 2 * minDim * (den \div 5) > 150 * den THEN 150 * den ELSE 2 * minDim * (den \div 5)
MinFontSizeAt(minDim, den) ==
    IF minDim * (den \div 50) < 12 * den THEN 12 * den ELSE minDim * (den \div 50)

\* C11 as stated: the font size lies between minFontSize and maxFontSize for every
\* width, height and text.
C11_ClampedIntoBounds ==
    \A p \in Procs :
        Sized(p) =>
            LET r == face[p].size
            IN  /\ r.den % 50 = 0
                /\ MinFontSizeAt(MinDim(p), r.den) <= r.num
                /\ r.num <= MaxFontSizeAt(MinDim(p), r.den)

\* C11: the font size is never below minFontSize = max(12, 0.02 * minDim); it is at
\* most maxFontSize = min(150, 0.4 * minDim) when min(width, height) >= 30; and
\* when min(width, height) < 30, where maxFontSize < minFontSize, it is
\* minFontSize = 12, above maxFontSize.
C11_MinWinsOverMax ==
    \A p \in Procs :
        Sized(p) =>
            LET r == face[p].size
                lo == MinFontSizeAt(MinDim(p), r.den)
                hi == MaxFontSizeAt(MinDim(p), r.den)
            IN  /\ r.den % 50 = 0
                /\ r.den > 0
                /\ lo <= r.num
                /\ MinDim(p) >= 30 => r.num <= hi
                /\ MinDim(p) < 30 => r.num = 12 * r.den /\ lo = 12 * r.den /\ hi < lo

\* A 29 x 3000 image: maxFontSize is 11.6 and the font size is 12.
C11_Witness ==
    /\ Sized("h1")
    /\ req["h1"].Width = 29
    /\ req["h1"].Height = 3000
    /\ face["h1"].size.num = 12 * face["h1"].size.den
    /\ face["h1"].size.num > MaxFontSizeAt(29, face["h1"].size.den)

\* p's request passed validation with a text that is not valid UTF-8 and
\* GenerateImage has been called for it.
InvalidTextCall(p) == req0[p] # NilRequest /\ ~ValidString(req0[p].Text)

\* C12: text that is not valid UTF-8 is no error. For a validated request with such
\* a text, the image createImage returns was measured and drawn with the literal
\* "Invalid UTF-8", not the request's original text; GenerateImage returns bytes of
\* such an image and no error, from the cache or freshly encoded, and fails only
\* when the encoder itself fails.
C12_InvalidTextDrawnAsLiteral ==
    \A p \in Procs :
        InvalidTextCall(p) =>
            /\ pc[p] = "encode" =>
                   /\ img[p].text = InvalidUTF8Text
                   /\ img[p].text # req0[p].Text
                   /\ img[p].Width = req0[p].Width
                   /\ img[p].Height = req0[p].Height
            /\ pc[p] = "done" =>
                   \/ /\ resp[p].status = 200
                      /\ resp[p].err = ""
                      /\ resp[p].body.complete
                      /\ resp[p].body.img.text = InvalidUTF8Text
                      /\ resp[p].body.img.text # req0[p].Text
                   \/ /\ resp[p].status = 500
                      /\ resp[p].err = "encode failed"
                      /\ ~resp[p].hit
                      /\ img[p].text = InvalidUTF8Text

\* A request with the text "\xff" was generated, not served from the cache, and
\* its bytes show "Invalid UTF-8".
C12_Witness ==
    \E p \in Procs :
        /\ InvalidTextCall(p)
        /\ req0[p].Text = << 255 >>
        /\ Generated(p)
        /\ resp[p].status = 200
        /\ resp[p].body.img.text = InvalidUTF8Text

\* p's step is the cache lookup of a call that passes a request object again:
\* before it, key[p] and resp[p] are the first call's key and returned bytes.
SecondLookup(p) == LookupStep(p) /\ resp[p].status = 200

\* C13 as stated: a second GenerateImage with the same request object, with no
\* eviction or expiry in between, computes the first call's cache key, hits the
\* cache without rendering again and returns the first call's bytes.
C13_SecondCallHitsSameKey ==
    [][\A p \in Procs :
          SecondLookup(p) =>
              /\ key'[p] = key[p]
              /\ pc'[p] = "done"
              /\ resp'[p].hit
              /\ resp'[p].body = resp[p].body]_vars

====
